---- MODULE Spec2Model ----
(***************************************************************************)
(* A model of the ray tracer "rt" (Ray Tracing in One Weekend, in Rust).   *)
(*                                                                         *)
(* The module holds several specifications over one set of variables,      *)
(* one per part of the program:                                            *)
(*   SpecMain / FairSpecMain  the render driver of main(): the header, the *)
(*                            rows handed to parallel workers, the lines   *)
(*                            printed by every worker;                     *)
(*   SpecColor                one top-level call of color(), call by call, *)
(*                            with every answer of the world left open;    *)
(*   SpecPixel                the samples of one pixel and its channels;   *)
(*   SpecHit                  Sphere::hit and the hit of a slice;          *)
(*   SpecMat                  Metal::new and Dielectric::scatter;          *)
(*   SpecCam                  Camera::new and Camera::get_ray;             *)
(*   SpecFloat                Sphere::hit and the hit of a slice over      *)
(*                            floats with NaN and infinities.              *)
(* Each specification leaves the variables of the other parts at their     *)
(* idle values.                                                            *)
(*                                                                         *)
(* Elem (f32 / f64) is modelled by exact or fixed-point arithmetic over    *)
(* the integers; floating-point rounding is not modelled.                  *)
(***************************************************************************)
EXTENDS Integers, Sequences, FiniteSets, TLC

\***************************************************************************
\* Elem and Vec3 (vec.rs)
\*
\* An Elem is modelled by an exact rational n / (d * 2^e), kept in a normal
\* form (d odd, n and d coprime, e = 0 or n odd) so that equal values are
\* equal records.  The factor 2^e keeps long products of attenuations such
\* as 0.5^50 inside TLC's integers.
\***************************************************************************

Abs(x) == IF x < 0 THEN -x ELSE x
Max2(x, y) == IF x < y THEN y ELSE x

RECURSIVE Gcd(_, _)
Gcd(a, b) == IF b = 0 THEN a ELSE Gcd(b, a % b)

RECURSIVE QReduce(_, _, _)
QReduce(n, d, e) ==
    IF n = 0 THEN [n |-> 0, d |-> 1, e |-> 0]
    ELSE IF d % 2 = 0 THEN QReduce(n, d \div 2, e + 1)
    ELSE IF n % 2 = 0 /\ e > 0 THEN QReduce(n \div 2, d, e - 1)
    ELSE [n |-> n, d |-> d, e |-> e]

\* The Elem n / (d * 2^e), for d > 0.
QMk(n, d, e) == LET g == Gcd(Abs(n), d) IN QReduce(n \div g, d \div g, e)
\* The Elem n / d, for d > 0.
Q(n, d) == QMk(n, d, 0)
QInt(k) == QMk(k, 1, 0)
QZero == QInt(0)
QOne == QInt(1)

QNeg(a) == [a EXCEPT !.n = -a.n]
QAdd(a, b) ==
    LET m == Max2(a.e, b.e)
    IN  QMk(a.n * b.d * 2^(m - a.e) + b.n * a.d * 2^(m - b.e), a.d * b.d, m)
QSub(a, b) == QAdd(a, QNeg(b))
QMul(a, b) == QMk(a.n * b.n, a.d * b.d, a.e + b.e)
\* a / b for b # 0 (the callers modelled never divide by zero).
QDiv(a, b) ==
    IF b.n > 0 THEN QMk(a.n * b.d * 2^b.e, a.d * b.n, a.e)
               ELSE QMk(-(a.n * b.d * 2^b.e), a.d * (-b.n), a.e)
QLt(a, b) == QSub(a, b).n < 0
QGt(a, b) == QLt(b, a)
QLe(a, b) == ~QLt(b, a)

RECURSIVE ISqrtIn(_, _, _)
ISqrtIn(x, lo, hi) ==
    IF lo >= hi THEN lo
    ELSE LET mid == (lo + hi + 1) \div 2
         IN  IF mid * mid <= x THEN ISqrtIn(x, mid, hi) ELSE ISqrtIn(x, lo, mid - 1)
\* floor(sqrt(x)) for 0 <= x < 2^31.
ISqrt(x) == ISqrtIn(x, 0, IF x < 46340 THEN x ELSE 46340)
IsSquare(x) == ISqrt(x) * ISqrt(x) = x

\* Elem::sqrt for a >= 0: exact when the root is rational, otherwise rounded
\* down to a multiple of 1/(16 * d) (a float's sqrt is rounded too).
QSqrt(a) ==
    LET n2 == IF a.e % 2 = 0 THEN a.n ELSE 2 * a.n
        h  == (a.e + (a.e % 2)) \div 2
    IN  IF IsSquare(n2) /\ IsSquare(a.d)
           THEN QMk(ISqrt(n2), ISqrt(a.d), h)
           ELSE QMk(ISqrt(n2 * a.d * 256), a.d, h + 4)

\* Vec3(x, y, z)
Vec3(x, y, z) == <<x, y, z>>
VInt(x, y, z) == <<QInt(x), QInt(y), QInt(z)>>
VZero == VInt(0, 0, 0)
VOnes == VInt(1, 1, 1)
VAdd(v, w) == <<QAdd(v[1], w[1]), QAdd(v[2], w[2]), QAdd(v[3], w[3])>>
VSub(v, w) == <<QSub(v[1], w[1]), QSub(v[2], w[2]), QSub(v[3], w[3])>>
VNeg(v) == <<QNeg(v[1]), QNeg(v[2]), QNeg(v[3])>>
\* Elem * Vec3 and Vec3 * Elem
VScale(k, v) == <<QMul(k, v[1]), QMul(k, v[2]), QMul(k, v[3])>>
\* Vec3 * Vec3, element-wise
VMul(v, w) == <<QMul(v[1], w[1]), QMul(v[2], w[2]), QMul(v[3], w[3])>>
\* Vec3 / Elem
VDivS(v, k) == <<QDiv(v[1], k), QDiv(v[2], k), QDiv(v[3], k)>>
Dot(v, w) == QAdd(QAdd(QMul(v[1], w[1]), QMul(v[2], w[2])), QMul(v[3], w[3]))
LengthSquared(v) == QAdd(QAdd(QMul(v[1], v[1]), QMul(v[2], v[2])), QMul(v[3], v[3]))
Length(v) == QSqrt(LengthSquared(v))
UnitVector(v) == VDivS(v, Length(v))


VARIABLES
    \* ---- render driver (main.rs, fn main) ----
    mpc,        \* position of main: "start", "render", "done"
    out,        \* the lines written to stdout so far, in order
    rows,       \* rows j of 0..ny not yet handed to a worker
    wrow,       \* wrow[w]: the row worker w is computing, or NoRow
    wcol,       \* wcol[w]: the next column i of worker w's row
    \* ---- color() (main.rs, fn color) ----
    scene,      \* what the scene lets a path do (see Scenes)
    cpc,        \* "idle", "call" (a call is at its first line), "ret", "done"
    depth0,     \* the depth argument of the top-level call
    depth,      \* the depth argument of the innermost call
    stack,      \* the attenuations the waiting callers will multiply by
    nscatter,   \* how many times material.scatter has been invoked
    maxdepth,   \* the largest depth argument any call has received
    ending,     \* how the innermost call ended: "none", "miss", "absorbed", "cutoff"
    missdir,    \* the direction of the ray that missed
    inner,      \* the colour the innermost call returned
    result,     \* the colour returned by the call that returned last
    acc,        \* the product of the attenuations met so far, in path order
    \* ---- one pixel (main.rs, fn main, the body of `for i in 0..nx`) ----
    ppc,        \* "idle", "sampling", "emitted"
    nsamp,      \* samples added to col so far
    col,        \* the accumulated colour
    pixel,      \* the three channel values printed
    \* ---- Sphere::hit and the hit of a slice (geometry.rs) ----
    hpc,        \* "idle", "start", "sphere", "negated", "slice", "reordered"
    hworld,     \* the slice of spheres
    hray,       \* the ray of the query
    htmin,      \* t_min
    htmax,      \* t_max
    hsel,       \* the index of the sphere Sphere::hit was called on, or 0
    hone,       \* what that Sphere::hit returned
    hneg,       \* what Sphere::hit returned for that sphere with its radius negated
    hall,       \* what the hit of the slice returned
    hprev,      \* what the hit of the slice returned before the last reordering
    hswaps,     \* how many times the slice has been reordered
    \* ---- materials (material.rs) ----
    mtpc,       \* "idle", "start", "built", "scattered"
    mat,        \* the material constructed
    mray,       \* the incoming ray
    mhr,        \* the hit record (point and normal)
    mresp,      \* the MaterialResponse of scatter
    drawn,      \* the uniform values scatter has drawn, in order
    \* ---- camera (camera.rs) ----
    campc,      \* "idle", "start", "ready", "ray"
    csettings,  \* the CameraSettings
    camera,     \* the Camera built from them
    cs,         \* the argument s of get_ray
    ct,         \* the argument t of get_ray
    crd,        \* rd = lens_radius * random_in_unit_disk()
    cray        \* the ray get_ray returned

mainVars == <<mpc, out, rows, wrow, wcol>>
colorVars == <<scene, cpc, depth0, depth, stack, nscatter, maxdepth, ending,
               missdir, inner, result, acc>>
pixelVars == <<ppc, nsamp, col, pixel>>

hitVars == <<hpc, hworld, hray, htmin, htmax, hsel, hone, hneg, hall, hprev, hswaps>>
matVars == <<mtpc, mat, mray, mhr, mresp, drawn>>
camVars == <<campc, csettings, camera, cs, ct, crd, cray>>

vars == <<mainVars, colorVars, pixelVars, hitVars, matVars, camVars>>

\***************************************************************************
\* Render driver: main()
\***************************************************************************

\* Image width, image height (main.rs sets 600 and 400) and the number of
\* threads in the pool, reduced to sizes that can be enumerated.
nx == 3
ny == 2
NumWorkers == 2

Workers == 1..NumWorkers
NoRow == -1

HeaderLine == [kind |-> "header", tag |-> "P3", width |-> nx, height |-> ny, maxval |-> 255]
PixelLine(i, j) == [kind |-> "pixel", i |-> i, j |-> j]

IdleMain ==
    /\ mpc = "idle"
    /\ out = <<>>
    /\ rows = {}
    /\ wrow = [w \in Workers |-> NoRow]
    /\ wcol = [w \in Workers |-> 0]

IdleColor ==
    /\ scene = <<>>
    /\ cpc = "idle"
    /\ depth0 = 0
    /\ depth = 0
    /\ stack = <<>>
    /\ nscatter = 0
    /\ maxdepth = 0
    /\ ending = "none"
    /\ missdir = VZero
    /\ inner = VZero
    /\ result = VZero
    /\ acc = VOnes

IdlePixel ==
    /\ ppc = "idle"
    /\ nsamp = 0
    /\ col = VZero
    /\ pixel = <<>>

None == <<>>
Some(x) == <<x>>

IdleHit ==
    /\ hpc = "idle"
    /\ hworld = <<>>
    /\ hray = [from |-> VZero, to |-> VZero]
    /\ htmin = QZero
    /\ htmax = QZero
    /\ hsel = 0
    /\ hone = None
    /\ hneg = None
    /\ hall = None
    /\ hprev = None
    /\ hswaps = 0

IdleMat ==
    /\ mtpc = "idle"
    /\ mat = [kind |-> "none", albedo |-> VZero, fuzz |-> QZero, refraction_index |-> QZero]
    /\ mray = [from |-> VZero, to |-> VZero]
    /\ mhr = [point |-> VZero, normal |-> VZero]
    /\ mresp = [kind |-> "none", attenuation |-> VZero, ray |-> [from |-> VZero, to |-> VZero]]
    /\ drawn = <<>>

NoSettings ==
    [look_from |-> VZero, look_at |-> VZero, v_up |-> VZero, v_fov |-> 0,
     aspect |-> QZero, aperture |-> QZero, focus_dist |-> QZero]
NoCamera ==
    [origin |-> VZero, lower_left_corner |-> VZero, horizontal |-> VZero,
     vertical |-> VZero, u |-> VZero, v |-> VZero, lens_radius |-> QZero]

IdleCam ==
    /\ campc = "idle"
    /\ csettings = NoSettings
    /\ camera = NoCamera
    /\ cs = QZero
    /\ ct = QZero
    /\ crd = VZero
    /\ cray = [from |-> VZero, to |-> VZero]

InitMain ==
    /\ mpc = "start"
    /\ out = <<>>
    /\ rows = {}
    /\ wrow = [w \in Workers |-> NoRow]
    /\ wcol = [w \in Workers |-> 0]
    /\ IdleColor
    /\ IdlePixel
    /\ IdleHit
    /\ IdleMat
    /\ IdleCam

\* println!("P3 {} {} 255", nx, ny); then (0..ny).into_par_iter() is created.
PrintHeader ==
    /\ mpc = "start"
    /\ out' = Append(out, HeaderLine)
    /\ rows' = 0..(ny - 1)
    /\ mpc' = "render"
    /\ UNCHANGED <<wrow, wcol, colorVars, pixelVars, hitVars, matVars, camVars>>

\* The rows left after worker w has been handed row j.
RowsAfterTake(pending, j) == pending \ {j}

\* for_each hands an item of the range to an idle thread of the pool; which
\* thread gets which row is up to the scheduler.
TakeRow(w) ==
    /\ mpc = "render"
    /\ wrow[w] = NoRow
    /\ \E j \in rows :
        /\ wrow' = [wrow EXCEPT ![w] = j]
        /\ rows' = RowsAfterTake(rows, j)
    /\ wcol' = [wcol EXCEPT ![w] = 0]
    /\ UNCHANGED <<mpc, out, colorVars, pixelVars, hitVars, matVars, camVars>>

\* The column after column i in `for i in 0..nx`.
NextColSkip(i) == i + 2
NextCol(i) == i + 1

\* One turn of `for i in 0..nx`: the pixel's colour is computed and its line
\* is printed at once (println! holds the stdout lock for one line).  After
\* the last column the closure returns and the thread is idle again.
EmitPixel(w) ==
    /\ mpc = "render"
    /\ wrow[w] # NoRow
    /\ wcol[w] < nx
    /\ out' = Append(out, PixelLine(wcol[w], wrow[w]))
    /\ IF NextCol(wcol[w]) < nx
          THEN /\ wcol' = [wcol EXCEPT ![w] = NextCol(wcol[w])]
               /\ wrow' = wrow
          ELSE /\ wcol' = [wcol EXCEPT ![w] = 0]
               /\ wrow' = [wrow EXCEPT ![w] = NoRow]
    /\ UNCHANGED <<mpc, rows, colorVars, pixelVars, hitVars, matVars, camVars>>

\* for_each returns once every row has been processed; main returns.
Join ==
    /\ mpc = "render"
    /\ rows = {}
    /\ \A w \in Workers : wrow[w] = NoRow
    /\ mpc' = "done"
    /\ UNCHANGED <<out, rows, wrow, wcol, colorVars, pixelVars, hitVars, matVars, camVars>>

NextMain ==
    \/ PrintHeader
    \/ \E w \in Workers : TakeRow(w)
    \/ \E w \in Workers : EmitPixel(w)
    \/ Join

SpecMain == InitMain /\ [][NextMain]_vars

\* Every thread of the pool keeps running and main is never cancelled.
FairSpecMain == SpecMain /\ WF_vars(NextMain)

\***************************************************************************
\* color(ray, world, depth)
\*
\* The recursion is run call by call.  The scene and the random draws enter
\* color() only through what world.hit and material.scatter answer; which
\* answer a call gets is left open at every call, within what `scene`
\* allows:
\*   scene.pattern  the attenuations of the materials a path meets, taken
\*                  in turn (the k-th nested call meets pattern[k mod len]);
\*   scene.lo       a ray can miss or be absorbed from the lo-th nested
\*                  call on;
\*   scene.hi       the hi-th nested call and those after it never get a
\*                  Scattered answer.
\***************************************************************************

MaxDepth == 50

\* Longest pattern of attenuations of a scene.
MaxPattern == 2

Half == Q(1, 2)
\* Albedos: Lambertian (0.5, 0.5, 0.5) of random_scene, the neutral
\* attenuation of Dielectric, and a coloured one with a zero channel.
Attenuations == {<<Half, Half, Half>>, VOnes, <<QOne, Half, QZero>>}
\* Ray directions of a missing ray.
Dirs == {VInt(0, 1, 0), VInt(0, -1, 0), VInt(1, 0, 0), VInt(3, 4, 0), VInt(2, -1, 2)}

Patterns == UNION {[1..n -> Attenuations] : n \in 1..MaxPattern}
\* Every answer is possible at every call.
FreeScenes == [pattern : Patterns, lo : {0}, hi : {MaxDepth + 2}]
\* The depth arguments tried (depth is a u32; main passes 0).
StartDepths == {0, MaxDepth - 1, MaxDepth, MaxDepth + 1}

\* The number of the innermost call among the nested calls (0: top level).
Level == depth - depth0
AttenuationAt(k) == scene.pattern[(k % Len(scene.pattern)) + 1]

White == VInt(1, 1, 1)
Blue == <<Q(1, 2), Q(7, 10), QOne>>

\* The else branch of color: the background gradient along `dir`.
Background(dir) ==
    LET unit_direction == UnitVector(dir)
        t == QMul(Q(1, 2), QAdd(unit_direction[2], QOne))
    IN  VAdd(VScale(QSub(QOne, t), White), VScale(t, Blue))

\* `if depth < 50`
DepthOkOffByOne(d) == d <= MaxDepth
DepthOk(d) == d < MaxDepth

\* What Absorbed returns.
AbsorbedOnes == VOnes
AbsorbedColor == VZero

\* attenuation * color(&ray, world, depth + 1)
Attenuate(attenuation, c) == VMul(attenuation, c)

StartCall(d0) ==
    /\ cpc = "call"
    /\ depth0 = d0
    /\ depth = d0
    /\ stack = <<>>
    /\ nscatter = 0
    /\ maxdepth = d0
    /\ ending = "none"
    /\ missdir = VZero
    /\ inner = VZero
    /\ result = VZero
    /\ acc = VOnes

InitColor ==
    /\ scene \in FreeScenes
    /\ \E d0 \in StartDepths : StartCall(d0)
    /\ IdleMain
    /\ IdlePixel
    /\ IdleHit
    /\ IdleMat
    /\ IdleCam

\* world.hit(..) is None: the call returns the background gradient.
CanMiss == cpc = "call" /\ Level >= scene.lo
ColorMissHitFirst ==
    /\ CanMiss
    /\ \E dir \in Dirs :
        /\ missdir' = dir
        /\ inner' = IF DepthOk(depth) THEN Background(dir) ELSE VZero
        /\ result' = IF DepthOk(depth) THEN Background(dir) ELSE VZero
    /\ cpc' = "ret"
    /\ ending' = "miss"
    /\ UNCHANGED <<scene, depth0, depth, stack, nscatter, maxdepth, acc, mainVars, pixelVars, hitVars, matVars, camVars>>
ColorMiss ==
    /\ CanMiss
    /\ \E dir \in Dirs :
        /\ missdir' = dir
        /\ inner' = Background(dir)
        /\ result' = Background(dir)
    /\ cpc' = "ret"
    /\ ending' = "miss"
    /\ UNCHANGED <<scene, depth0, depth, stack, nscatter, maxdepth, acc, mainVars, pixelVars, hitVars, matVars, camVars>>

\* A hit, depth < 50, scatter answers Scattered: the call calls
\* color(&ray, world, depth + 1) and waits to multiply by the attenuation.
CanScatter == cpc = "call" /\ DepthOk(depth) /\ Level < scene.hi
ColorScattered ==
    /\ CanScatter
    /\ nscatter' = nscatter + 1
    /\ stack' = Append(stack, AttenuationAt(Level))
    /\ acc' = VMul(acc, AttenuationAt(Level))
    /\ depth' = depth + 1
    /\ maxdepth' = Max2(maxdepth, depth + 1)
    /\ UNCHANGED <<scene, cpc, depth0, ending, missdir, inner, result, mainVars, pixelVars, hitVars, matVars, camVars>>

\* A hit, depth < 50, scatter answers Absorbed: the call returns black.
CanAbsorb == cpc = "call" /\ DepthOk(depth) /\ Level >= scene.lo
ColorAbsorbed ==
    /\ CanAbsorb
    /\ nscatter' = nscatter + 1
    /\ inner' = AbsorbedColor
    /\ result' = AbsorbedColor
    /\ cpc' = "ret"
    /\ ending' = "absorbed"
    /\ UNCHANGED <<scene, depth0, depth, stack, maxdepth, missdir, acc, mainVars, pixelVars, hitVars, matVars, camVars>>

\* A hit at depth >= 50: the call returns black and scatter is not invoked.
CanCutoff == cpc = "call" /\ ~DepthOk(depth)
ColorCutoff ==
    /\ CanCutoff
    /\ inner' = VZero
    /\ result' = VZero
    /\ cpc' = "ret"
    /\ ending' = "cutoff"
    /\ UNCHANGED <<scene, depth0, depth, stack, nscatter, maxdepth, missdir, acc, mainVars, pixelVars, hitVars, matVars, camVars>>

\* The innermost call has returned; its caller multiplies the returned
\* colour by its attenuation and returns the product.
CanReturn == cpc = "ret" /\ stack # <<>>
ColorReturn ==
    /\ CanReturn
    /\ result' = Attenuate(stack[Len(stack)], result)
    /\ stack' = SubSeq(stack, 1, Len(stack) - 1)
    /\ depth' = depth - 1
    /\ UNCHANGED <<scene, cpc, depth0, nscatter, maxdepth, ending, missdir, inner, acc,
                   mainVars, pixelVars, hitVars, matVars, camVars>>

\* The top-level call has returned.
CanFinish == cpc = "ret" /\ stack = <<>>
ColorDone ==
    /\ CanFinish
    /\ cpc' = "done"
    /\ UNCHANGED <<scene, depth0, depth, stack, nscatter, maxdepth, ending, missdir, inner,
                   result, acc, mainVars, pixelVars, hitVars, matVars, camVars>>

NextColor ==
    \/ ColorMiss
    \/ ColorScattered
    \/ ColorAbsorbed
    \/ ColorCutoff
    \/ ColorReturn
    \/ ColorDone

SpecColor == InitColor /\ [][NextColor]_vars

\* C2: color(ray, world, 0) terminates whatever the scene and the materials
\* answer (every adversarial sequence of answers is a behaviour of
\* SpecColor): no nested call gets a depth above 50, scatter is invoked only
\* when depth < 50 (at most 50 times on a path), and a hit at depth >= 50
\* returns black without invoking scatter.
C2_DepthBounded ==
    depth0 = 0 =>
        /\ depth <= MaxDepth
        /\ maxdepth <= MaxDepth
        /\ nscatter <= MaxDepth
        /\ Len(stack) = depth
        /\ nscatter \in {maxdepth, maxdepth + 1}
        /\ ending = "cutoff" => maxdepth = MaxDepth /\ nscatter = MaxDepth /\ inner = VZero
        /\ ending = "absorbed" => nscatter = maxdepth + 1
\* Termination: a call that has not returned can always take a step (the
\* guard of one of the actions holds; what follows a guard in an action only
\* assigns), and every step lowers a natural number, so the steps run out.
C2_Variant ==
    IF cpc = "call" THEN 2 * (MaxDepth + 2) - depth
    ELSE IF cpc = "ret" THEN Len(stack) + 1
    ELSE 0
C2_CanStep == CanMiss \/ CanScatter \/ CanAbsorb \/ CanCutoff \/ CanReturn \/ CanFinish
C2_ColorTerminates ==
    /\ [](C2_DepthBounded /\ C2_Variant >= 0 /\ (cpc # "done" => C2_CanStep))
    /\ [][C2_Variant' < C2_Variant]_vars
C2_Witness == cpc = "done" /\ depth0 = 0 /\ ending = "cutoff" /\ nscatter = MaxDepth

\* C4: when world.hit finds nothing, color returns exactly
\* (1 - t)*(1,1,1) + t*(0.5,0.7,1.0) with t = 0.5*(unit_direction.y + 1),
\* whatever the depth, and the call invokes no scatter (the only place of
\* color that draws random values): the result depends on the ray alone.
C4_Gradient(dir) ==
    LET len == QSqrt(Dot(dir, dir))
        t   == QMul(Half, QAdd(QDiv(dir[2], len), QOne))
        u   == QSub(QOne, t)
    IN  <<QAdd(u, QMul(t, Q(1, 2))), QAdd(u, QMul(t, Q(7, 10))), QAdd(u, t)>>
C4_MissIsBackground ==
    ending = "miss" =>
        /\ inner = C4_Gradient(missdir)
        /\ nscatter = maxdepth - depth0
C4_Witness ==
    /\ ending = "miss"
    /\ depth > MaxDepth
    /\ missdir = VInt(3, 4, 0)
    /\ inner = <<Q(11, 20), Q(73, 100), QOne>>

\* C5: color(ray, world, 0) equals the loop that multiplies the attenuations
\* of the Scattered answers along the path into an accumulator (acc) and
\* stops at the first miss (terminal value: the background of that ray), at
\* Absorbed (black) or at a hit at depth 50 (black); Absorbed at any bounce
\* makes the whole result black.
C5_Terminal ==
    IF ending = "miss" THEN C4_Gradient(missdir) ELSE VZero
C5_RecursionIsLoop ==
    (cpc = "done" /\ depth0 = 0) =>
        /\ result = VMul(acc, C5_Terminal)
        /\ ending = "absorbed" => result = VZero
C5_Witness ==
    /\ cpc = "done"
    /\ depth0 = 0
    /\ nscatter = 3
    /\ ending = "miss"
    /\ result = <<Q(11, 160), Q(73, 800), Q(1, 8)>>

\***************************************************************************
\* One pixel: the body of `for i in 0..nx` in main()
\*
\* ns samples of color(&r, &world[..], 0) are added up, averaged, gamma
\* corrected and scaled, and the three channels are printed as u32.
\***************************************************************************

\* Samples per pixel (main.rs sets 10) and the longest path of a scene that
\* rays can leave, reduced to sizes that can be enumerated.
ns == 2
MaxBounce == 2

\* Scenes of one material that every ray leaves after at most MaxBounce
\* bounces, and closed boxes that no ray leaves.
PixelScenes ==
    {sc \in [pattern : Patterns, lo : {0, MaxDepth + 1}, hi : {MaxBounce, MaxDepth + 2}] :
        /\ Len(sc.pattern) = 1
        /\ sc.lo = 0 <=> sc.hi = MaxBounce}

\* floor(a * 2^16) for a >= 0.
QFloor16(a) ==
    IF a.e <= 16 THEN (a.n * 2^(16 - a.e)) \div a.d
    ELSE IF a.e > 46 THEN 0
    ELSE a.n \div (a.d * 2^(a.e - 16))
\* `col += c`: the sum keeps 16 binary digits of the sample (an f32 sum is
\* rounded as well).
QRound(a) == QMk(QFloor16(a), 1, 16)
AddAssign(c, v) == VAdd(c, <<QRound(v[1]), QRound(v[2]), QRound(v[3])>>)

\* `col /= f32::from(ns)`
Average(c) == VDivS(c, QInt(ns))
\* Vec3::sqrt_coords
SqrtCoords(v) == <<QSqrt(v[1]), QSqrt(v[2]), QSqrt(v[3])>>
\* `x as u32` of a finite x: truncation, and 0 for a negative x.
AsU32(a) == IF a.n < 0 THEN 0 ELSE a.n \div (a.d * 2^a.e)
\* `col *= 255.99` and the cast of one channel.
Channel256(x) == AsU32(QMul(x, QInt(256)))
Channel(x) == AsU32(QMul(x, Q(25599, 100)))

InitPixel ==
    /\ scene \in PixelScenes
    /\ StartCall(0)
    /\ ppc = "sampling"
    /\ nsamp = 0
    /\ col = VZero
    /\ pixel = <<>>
    /\ IdleMain
    /\ IdleHit
    /\ IdleMat
    /\ IdleCam

\* `col += color(&r, &world[..], 0)` and the next turn of `for _ in 0..ns`.
AddSample ==
    /\ ppc = "sampling"
    /\ cpc = "done"
    /\ col' = AddAssign(col, result)
    /\ nsamp' = nsamp + 1
    /\ IF nsamp + 1 < ns
          THEN /\ cpc' = "call"
               /\ depth0' = 0
               /\ depth' = 0
               /\ stack' = <<>>
               /\ nscatter' = 0
               /\ maxdepth' = 0
               /\ ending' = "none"
               /\ missdir' = VZero
               /\ inner' = VZero
               /\ result' = VZero
               /\ acc' = VOnes
               /\ ppc' = ppc
          ELSE /\ cpc' = "idle"
               /\ ppc' = "summed"
               /\ UNCHANGED <<depth0, depth, stack, nscatter, maxdepth, ending,
                              missdir, inner, result, acc>>
    /\ UNCHANGED <<scene, pixel, mainVars, hitVars, matVars, camVars>>

\* col /= ns; col.sqrt_coords(); col *= 255.99; println!(r, g, b as u32).
EmitChannels ==
    /\ ppc = "summed"
    /\ LET c == SqrtCoords(Average(col))
       IN  pixel' = <<Channel(c[1]), Channel(c[2]), Channel(c[3])>>
    /\ ppc' = "emitted"
    /\ UNCHANGED <<nsamp, col, colorVars, mainVars, hitVars, matVars, camVars>>

NextPixel ==
    \/ ColorMiss
    \/ ColorScattered
    \/ ColorAbsorbed
    \/ ColorCutoff
    \/ ColorReturn
    \/ ColorDone
    \/ AddSample
    \/ EmitChannels

SpecPixel == InitPixel /\ [][NextPixel]_vars

\* C10: with attenuations in [0,1], every colour a call of color returns has
\* its components in [0,1], and each of the three channel values printed
\* for the pixel is an integer in 0..255.
C10_QInUnit(a) == a.n >= 0 /\ (a.n <= a.d \/ a.e > 30 \/ (a.n + 2^a.e - 1) \div 2^a.e <= a.d)
C10_InUnit(v) == \A k \in 1..3 : C10_QInUnit(v[k])
C10_SceneInUnit == \A k \in 1..Len(scene.pattern) : C10_InUnit(scene.pattern[k])
C10_ChannelsInRange ==
    C10_SceneInUnit =>
        /\ cpc \in {"ret", "done"} => C10_InUnit(result) /\ C10_InUnit(inner)
        /\ ppc = "emitted" => \A k \in 1..3 : pixel[k] \in 0..255
C10_Witness ==
    /\ ppc = "emitted"
    /\ nsamp = ns
    /\ pixel[1] = 255
    /\ pixel[2] \in 1..254
    /\ pixel[3] = 0

\* ---- helpers over the output stream ----
PixelLines == SelectSeq(out, LAMBDA l : l.kind = "pixel")
IsPixelOf(l, i, j) == l.kind = "pixel" /\ l.i = i /\ l.j = j

\* C1: the stream of pixel triplets is in raster order under every
\* interleaving: the pixels of one row are contiguous and run left to right
\* (i = 0..nx-1), no triplet of another row comes between them, and the rows
\* follow each other in one direction (all increasing j or all decreasing j).
C1_RowChange(k) == PixelLines[k + 1].j # PixelLines[k].j
C1_RasterOrder ==
    LET P == PixelLines
        n == Len(P)
    IN  /\ n >= 1 => P[1].i = 0
        /\ \A k \in 1..(n - 1) :
              \/ P[k + 1].j = P[k].j /\ P[k + 1].i = P[k].i + 1
              \/ P[k].i = nx - 1 /\ P[k + 1].i = 0 /\ P[k + 1].j # P[k].j
        /\ \/ \A k \in 1..(n - 1) : C1_RowChange(k) => P[k + 1].j > P[k].j
           \/ \A k \in 1..(n - 1) : C1_RowChange(k) => P[k + 1].j < P[k].j

\* C3: the header line (P3, nx, ny, 255) is written before any pixel triplet,
\* no pixel is ever written twice, main runs to completion, and at completion
\* exactly nx*ny triplets have been written, one for each (i, j).
C3_HeaderFirst ==
    out # <<>> =>
        /\ out[1].kind = "header"
        /\ out[1] = HeaderLine
        /\ \A k \in 2..Len(out) : out[k].kind = "pixel"
C3_Count(i, j) == Cardinality({k \in 1..Len(out) : IsPixelOf(out[k], i, j)})
C3_AtMostOnce ==
    /\ \A k \in 1..Len(out) :
          out[k].kind = "pixel" => out[k].i \in 0..(nx - 1) /\ out[k].j \in 0..(ny - 1)
    /\ \A i \in 0..(nx - 1), j \in 0..(ny - 1) : C3_Count(i, j) <= 1
C3_AllAtEnd ==
    mpc = "done" =>
        /\ Len(PixelLines) = nx * ny
        /\ \A i \in 0..(nx - 1), j \in 0..(ny - 1) : C3_Count(i, j) = 1
C3_HeaderThenEveryPixelOnce ==
    /\ [](C3_HeaderFirst /\ C3_AtMostOnce /\ C3_AllAtEnd)
    /\ <>(mpc = "done")
C3_Witness == mpc = "done" /\ Len(out) = nx * ny + 1 /\ out[1] = HeaderLine

\***************************************************************************
\* Sphere::hit and the hit of a slice (geometry.rs; lib.rs holds the same
\* code)
\***************************************************************************

\* The longest slice and the number of times a slice is reordered.
MaxWorld == 3
MaxSwaps == 1

Ray(from, to) == [from |-> from, to |-> to]
PointAtParameter(ray, t) == VAdd(ray.from, VScale(t, ray.to))

\* Sphere { center, radius, material }; the Rc of a material is an id.
Sphere(center, radius, material) ==
    [center |-> center, radius |-> radius, material |-> material]
HitRecord(time, point, normal, material) ==
    [time |-> time, point |-> point, normal |-> normal, material |-> material]

\* A sphere on the -z axis, a larger one that shares a root with it for the
\* rays from the origin, a sphere those rays touch in one point and a sphere
\* off the z axis.
Spheres ==
    { Sphere(VInt(0, 0, -3), QInt(1), 1),
      Sphere(VInt(0, 0, -4), QInt(2), 2),
      Sphere(VInt(0, 1, -3), QInt(1), 3),
      Sphere(VInt(6, 8, 0), QInt(5), 4) }
HitRays ==
    { Ray(VZero, VInt(0, 0, -1)),
      Ray(VZero, VInt(0, 0, -2)),
      Ray(VZero, VInt(3, 4, 0)),
      Ray(VInt(0, 0, -3), VInt(0, 0, -1)) }
\* (t_min, t_max); main passes (0.001, f32::MAX).
FarAway == QInt(1000)
Intervals ==
    { <<Q(1, 1000), FarAway>>, <<QInt(2), QInt(4)>>,
      <<QInt(1), QInt(3)>>, <<QInt(2), FarAway>> }
Worlds ==
    { w \in UNION {[1..n -> Spheres] : n \in 0..MaxWorld} :
        \A i, j \in DOMAIN w : w[i] = w[j] => i = j }

\* t > t_min && t < t_max
InIntervalClosed(t, t_min, t_max) == QLe(t_min, t) /\ QLe(t, t_max)
InInterval(t, t_min, t_max) == QGt(t, t_min) /\ QLt(t, t_max)

\* The closure mk_hit_record of Sphere::hit.
MkHitRecordOutward(s, ray, t) ==
    LET p == PointAtParameter(ray, t)
    IN  Some(HitRecord(t, p, VDivS(VSub(p, s.center), QMk(Abs(s.radius.n), s.radius.d, s.radius.e)),
                       s.material))
MkHitRecord(s, ray, t) ==
    LET p == PointAtParameter(ray, t)
    IN  Some(HitRecord(t, p, VDivS(VSub(p, s.center), s.radius), s.material))

\* Sphere::hit
SphereHit(s, ray, t_min, t_max) ==
    LET oc == VSub(ray.from, s.center)
        dir == ray.to
        a == Dot(dir, dir)
        b == Dot(oc, dir)
        c == QSub(Dot(oc, oc), QMul(s.radius, s.radius))
        discriminant == QSub(QMul(b, b), QMul(a, c))
        t_small == QDiv(QSub(QNeg(b), QSqrt(discriminant)), a)
        t_big == QDiv(QAdd(QNeg(b), QSqrt(discriminant)), a)
    IN  IF QGt(discriminant, QZero)
           THEN IF InInterval(t_small, t_min, t_max) THEN MkHitRecord(s, ray, t_small)
                ELSE IF InInterval(t_big, t_min, t_max) THEN MkHitRecord(s, ray, t_big)
                ELSE None
           ELSE None

\* self.iter().filter_map(|h| h.hit(ray, t_min, t_max)): the hits, in the
\* order of the slice.
RECURSIVE FilterMapHit(_, _, _, _)
FilterMapHit(world, ray, t_min, t_max) ==
    IF world = <<>> THEN <<>>
    ELSE SphereHit(Head(world), ray, t_min, t_max)
            \o FilterMapHit(Tail(world), ray, t_min, t_max)

\* One step of Iterator::min_by with the comparator
\* x.time.partial_cmp(&y.time): the later record y replaces x only when x
\* compares Greater.
MaxByStep(x, y) == IF QLt(x.time, y.time) THEN y ELSE x
MinByStep(x, y) == IF QGt(x.time, y.time) THEN y ELSE x

RECURSIVE MinBy(_, _)
MinBy(best, rest) ==
    IF rest = <<>> THEN best ELSE MinBy(MinByStep(best, Head(rest)), Tail(rest))

\* impl Hitable for [T]: hit
SliceHit(world, ray, t_min, t_max) ==
    LET hits == FilterMapHit(world, ray, t_min, t_max)
    IN  IF hits = <<>> THEN None ELSE Some(MinBy(Head(hits), Tail(hits)))

InitHit ==
    /\ hpc = "start"
    /\ hworld \in Worlds
    /\ hray \in HitRays
    /\ \E iv \in Intervals : htmin = iv[1] /\ htmax = iv[2]
    /\ hsel = 0
    /\ hone = None
    /\ hneg = None
    /\ hall = None
    /\ hprev = None
    /\ hswaps = 0
    /\ IdleMain
    /\ IdleColor
    /\ IdlePixel
    /\ IdleMat
    /\ IdleCam

\* A caller queries one sphere of the slice.
SphereHitCall ==
    /\ hpc = "start"
    /\ \E k \in 1..Len(hworld) :
          /\ hsel' = k
          /\ hone' = SphereHit(hworld[k], hray, htmin, htmax)
    /\ hpc' = "sphere"
    /\ UNCHANGED <<hworld, hray, htmin, htmax, hneg, hall, hprev, hswaps,
                   mainVars, colorVars, pixelVars, matVars, camVars>>

\* The same sphere with the radius negated (a hollow shell).
Negated(s) == [s EXCEPT !.radius = QNeg(s.radius)]

\* The caller queries the sphere of the opposite radius with the same ray
\* and interval.
NegatedHitCall ==
    /\ hpc = "sphere"
    /\ hneg' = SphereHit(Negated(hworld[hsel]), hray, htmin, htmax)
    /\ hpc' = "negated"
    /\ UNCHANGED <<hworld, hray, htmin, htmax, hsel, hone, hall, hprev, hswaps,
                   mainVars, colorVars, pixelVars, matVars, camVars>>

\* A caller queries the slice.
SliceHitCall ==
    /\ hpc \in {"start", "sphere", "negated", "reordered"}
    /\ hall' = SliceHit(hworld, hray, htmin, htmax)
    /\ hpc' = "slice"
    /\ UNCHANGED <<hworld, hray, htmin, htmax, hsel, hone, hneg, hprev, hswaps,
                   mainVars, colorVars, pixelVars, matVars, camVars>>

Swap(world, i, j) ==
    [k \in 1..Len(world) |-> IF k = i THEN world[j] ELSE IF k = j THEN world[i] ELSE world[k]]

\* The same surfaces are put in another order and queried again.
Reorder ==
    /\ hpc = "slice"
    /\ hswaps < MaxSwaps
    /\ \E i \in 1..(Len(hworld) - 1) : hworld' = Swap(hworld, i, i + 1)
    /\ hprev' = hall
    /\ hswaps' = hswaps + 1
    /\ hsel' = 0
    /\ hone' = None
    /\ hneg' = None
    /\ hpc' = "reordered"
    /\ UNCHANGED <<hray, htmin, htmax, hall, mainVars, colorVars, pixelVars, matVars, camVars>>

NextHit ==
    \/ SphereHitCall
    \/ NegatedHitCall
    \/ SliceHitCall
    \/ Reorder

SpecHit == InitHit /\ [][NextHit]_vars

\* C6: Sphere::hit with a = D.D, b = (O-C).D, c = (O-C).(O-C) - r^2 returns
\* no hit when b^2 - a*c <= 0 (the tangent ray included); otherwise the
\* smaller root when it is strictly inside (t_min, t_max), else the larger
\* root when that one is strictly inside, else no hit; the time returned is
\* never t_min or t_max and the point is the ray's point at that time.
C6_a == Dot(hray.to, hray.to)
C6_b == Dot(VSub(hray.from, hworld[hsel].center), hray.to)
C6_c ==
    QSub(Dot(VSub(hray.from, hworld[hsel].center), VSub(hray.from, hworld[hsel].center)),
         QMul(hworld[hsel].radius, hworld[hsel].radius))
C6_disc == QSub(QMul(C6_b, C6_b), QMul(C6_a, C6_c))
C6_Small == QDiv(QSub(QNeg(C6_b), QSqrt(C6_disc)), C6_a)
C6_Big == QDiv(QAdd(QNeg(C6_b), QSqrt(C6_disc)), C6_a)
C6_Strictly(t) == QLt(htmin, t) /\ QLt(t, htmax)
C6_SphereHitContract ==
    hsel # 0 =>
        /\ QLe(C6_disc, QZero) => hone = None
        /\ QGt(C6_disc, QZero) =>
              IF C6_Strictly(C6_Small) THEN hone # None /\ hone[1].time = C6_Small
              ELSE IF C6_Strictly(C6_Big) THEN hone # None /\ hone[1].time = C6_Big
              ELSE hone = None
        /\ hone # None =>
              /\ hone[1].time # htmin
              /\ hone[1].time # htmax
              /\ hone[1].point = VAdd(hray.from, VScale(hone[1].time, hray.to))
              /\ LengthSquared(VSub(hone[1].point, hworld[hsel].center))
                    = QMul(hworld[hsel].radius, hworld[hsel].radius)
\* The smaller root equals t_min and is refused; the larger root is returned.
C6_Witness ==
    /\ hsel # 0
    /\ hone # None
    /\ htmin = QInt(2)
    /\ QGt(C6_disc, QZero)
    /\ C6_Small = htmin
    /\ hone[1].time = QInt(4)
    /\ hone[1].point = VInt(0, 0, -4)

\* C7: the hit of a slice is None exactly when no surface of the slice
\* reports a hit in (t_min, t_max); otherwise its time is the least of the
\* times of the individual hits.  The time is the same for every order of
\* the slice; the order decides only which of the records of equal time is
\* returned.
C7_Hits(world) ==
    {SphereHit(world[k], hray, htmin, htmax) : k \in 1..Len(world)} \ {None}
C7_SameTime(r1, r2) ==
    IF r1 = None \/ r2 = None THEN r1 = r2 ELSE r1[1].time = r2[1].time
C7_Permuted(world, p) == [k \in 1..Len(world) |-> world[p[k]]]
C7_AggregateIsMinimum ==
    hpc = "slice" =>
        /\ hall = None <=> C7_Hits(hworld) = {}
        /\ hall # None =>
              /\ hall \in C7_Hits(hworld)
              /\ \A h \in C7_Hits(hworld) : QLe(hall[1].time, h[1].time)
        /\ \A p \in Permutations(1..Len(hworld)) :
              C7_SameTime(hall, SliceHit(C7_Permuted(hworld, p), hray, htmin, htmax))
        /\ hswaps > 0 => C7_SameTime(hall, hprev)
\* Two spheres hit at the same time: after the reordering the record differs
\* and the time does not.
C7_Witness ==
    /\ hpc = "slice"
    /\ hswaps > 0
    /\ Len(hworld) = MaxWorld
    /\ hall # None
    /\ hprev # None
    /\ hall # hprev
    /\ hall[1].time = hprev[1].time
    /\ Cardinality(C7_Hits(hworld)) > 1

\***************************************************************************
\* Materials: Metal::new, Metal::scatter, Dielectric::scatter (material.rs)
\***************************************************************************

Metal(albedo, fuzz) ==
    [kind |-> "Metal", albedo |-> albedo, fuzz |-> fuzz, refraction_index |-> QZero]
Dielectric(refraction_index) ==
    [kind |-> "Dielectric", albedo |-> VZero, fuzz |-> QZero,
     refraction_index |-> refraction_index]

\* MaterialResponse
Scattered(attenuation, ray) == [kind |-> "Scattered", attenuation |-> attenuation, ray |-> ray]
Absorbed == [kind |-> "Absorbed", attenuation |-> VZero, ray |-> Ray(VZero, VZero)]

\* The arguments Metal::new is given.
Albedos == {<<Q(7, 10), Q(3, 5), Q(1, 2)>>}
Fuzzes == {QInt(-2), Q(-1, 2), QZero, Q(3, 10), QOne, QInt(2)}
\* Refraction indices (main uses 1.5).
RefractionIndices == {QOne, Q(5, 4), Q(4, 3), Q(3, 2)}
\* Incoming directions and the normals at the hit point; with the normal
\* (0,1,0) the directions with y > 0 leave the medium.
MatDirs ==
    { VInt(3, 4, 0), VInt(4, 3, 0), VInt(0, 1, 0), VInt(1, 0, 0),
      VInt(0, -1, 0), VInt(4, -3, 0) }
MatNormals == {VInt(0, 1, 0), VInt(0, -1, 0)}
MatPoints == {VInt(1, 2, 3)}
\* The values rand::random::<Elem>() can give, in [0, 1).
Uniforms == {QZero, Q(1, 25), Q(1, 2), Q(24, 25)}
\* 2.0 * Vec3(rng.gen(), rng.gen(), rng.gen()) - Vec3::ones()
Candidates ==
    { VZero, <<Q(1, 2), Q(1, 2), Q(1, 2)>>, <<QZero, Q(-9, 10), QZero>>,
      <<Q(-1, 2), QZero, Q(1, 2)>>, <<Q(9, 10), Q(9, 10), Q(9, 10)>> }
\* random_in_unit_sphere: the loop ends with a candidate inside the sphere.
RandomInUnitSphere == {v \in Candidates : QLt(LengthSquared(v), QOne)}

\* Metal::new
ClampFuzz(fuzz) == IF QGt(fuzz, QOne) THEN QOne ELSE fuzz
MetalNewOf(albedo, fuzz) == Metal(albedo, ClampFuzz(fuzz))

Reflect(v, normal) == VSub(v, VScale(QMul(QInt(2), Dot(v, normal)), normal))

\* `if discr > 0.0`
DiscrNonNegative(discr) == QLe(QZero, discr)
DiscrPositive(discr) == QGt(discr, QZero)

Refract(v, n, ni_over_nt) ==
    LET uv == UnitVector(v)
        dt == Dot(uv, n)
        discr == QSub(QOne, QMul(QMul(ni_over_nt, ni_over_nt), QSub(QOne, QMul(dt, dt))))
    IN  IF DiscrPositive(discr)
           THEN Some(VSub(VScale(ni_over_nt, VSub(uv, VScale(dt, n))),
                          VScale(QSqrt(discr), n)))
           ELSE None

Powi5(x) == QMul(x, QMul(x, QMul(x, QMul(x, x))))
Schlick(cosine, ref_idx) ==
    LET r00 == QDiv(QSub(QOne, ref_idx), QAdd(QOne, ref_idx))
        r0 == QMul(r00, r00)
    IN  QAdd(r0, QMul(QSub(QOne, r0), Powi5(QSub(QOne, cosine))))

\* Metal::scatter with the point random_in_unit_sphere gave.
MetalScatterOf(m, ray, hr, rnd) ==
    LET reflected_dir == Reflect(UnitVector(ray.to), hr.normal)
        scattered == Ray(hr.point, VAdd(reflected_dir, VScale(m.fuzz, rnd)))
    IN  IF QGt(Dot(scattered.to, hr.normal), QZero)
           THEN Scattered(m.albedo, scattered)
           ELSE Absorbed

\* Dielectric::scatter up to the match on refract: the reflected ray, the
\* refracted direction if there is one, and the reflectance.
DielectricParts(m, ray, hr) ==
    LET d1 == Dot(hr.normal, ray.to)
        back == QGt(d1, QZero)
        outward_normal == IF back THEN VNeg(hr.normal) ELSE hr.normal
        ni_over_nt == IF back THEN m.refraction_index ELSE QDiv(QOne, m.refraction_index)
        cosine == IF back THEN QDiv(QMul(m.refraction_index, d1), Length(ray.to))
                          ELSE QDiv(QNeg(d1), Length(ray.to))
    IN  [reflected_ray |-> Ray(hr.point, Reflect(ray.to, hr.normal)),
         refracted |-> Refract(ray.to, outward_normal, ni_over_nt),
         reflect_prob |-> Schlick(cosine, m.refraction_index)]

InitMat ==
    /\ mtpc = "start"
    /\ mat = [kind |-> "none", albedo |-> VZero, fuzz |-> QZero, refraction_index |-> QZero]
    /\ \E d \in MatDirs : mray = Ray(VZero, d)
    /\ \E p \in MatPoints, n \in MatNormals : mhr = [point |-> p, normal |-> n]
    /\ mresp = [kind |-> "none", attenuation |-> VZero, ray |-> Ray(VZero, VZero)]
    /\ drawn = <<>>
    /\ IdleMain
    /\ IdleColor
    /\ IdlePixel
    /\ IdleHit
    /\ IdleCam

MetalNew ==
    /\ mtpc = "start"
    /\ \E albedo \in Albedos, fuzz \in Fuzzes : mat' = MetalNewOf(albedo, fuzz)
    /\ mtpc' = "built"
    /\ UNCHANGED <<mray, mhr, mresp, drawn, mainVars, colorVars, pixelVars, hitVars, camVars>>

DielectricNew ==
    /\ mtpc = "start"
    /\ \E refraction_index \in RefractionIndices : mat' = Dielectric(refraction_index)
    /\ mtpc' = "built"
    /\ UNCHANGED <<mray, mhr, mresp, drawn, mainVars, colorVars, pixelVars, hitVars, camVars>>

MetalScatter ==
    /\ mtpc = "built"
    /\ mat.kind = "Metal"
    /\ \E rnd \in RandomInUnitSphere : mresp' = MetalScatterOf(mat, mray, mhr, rnd)
    /\ mtpc' = "scattered"
    /\ UNCHANGED <<mat, mray, mhr, drawn, mainVars, colorVars, pixelVars, hitVars, camVars>>

DielectricScatter ==
    /\ mtpc = "built"
    /\ mat.kind = "Dielectric"
    /\ LET parts == DielectricParts(mat, mray, mhr)
       IN  IF parts.refracted # None
              THEN \E u \in Uniforms :
                      /\ drawn' = Append(drawn, u)
                      /\ mresp' = Scattered(VOnes,
                                     IF QLt(u, parts.reflect_prob)
                                        THEN parts.reflected_ray
                                        ELSE Ray(mhr.point, parts.refracted[1]))
              ELSE /\ drawn' = drawn
                   /\ mresp' = Scattered(VOnes, parts.reflected_ray)
    /\ mtpc' = "scattered"
    /\ UNCHANGED <<mat, mray, mhr, mainVars, colorVars, pixelVars, hitVars, camVars>>

NextMat ==
    \/ MetalNew
    \/ DielectricNew
    \/ MetalScatter
    \/ DielectricScatter

SpecMat == InitMat /\ [][NextMat]_vars

\* C8: for every fuzz value passed to Metal::new the fuzz stored in the
\* Metal lies in [0,1], so every scatter perturbs the reflection by a factor
\* in [0,1].
C8_FuzzInUnit ==
    mat.kind = "Metal" => QLe(QZero, mat.fuzz) /\ QLe(mat.fuzz, QOne)

\* C9: Dielectric::scatter always returns Scattered with attenuation (1,1,1)
\* and a ray from the hit point.  When 1 - ratio^2 * (1 - cos^2) <= 0 no
\* value is drawn and the ray is the reflected one; otherwise exactly one
\* uniform value is drawn and the ray is the reflected one if that value is
\* below the Schlick reflectance and the refracted one otherwise.
C9_Back == QGt(Dot(mhr.normal, mray.to), QZero)
C9_Ratio == IF C9_Back THEN mat.refraction_index ELSE QDiv(QOne, mat.refraction_index)
C9_Cos == Dot(UnitVector(mray.to), IF C9_Back THEN VNeg(mhr.normal) ELSE mhr.normal)
C9_Discr == QSub(QOne, QMul(QMul(C9_Ratio, C9_Ratio), QSub(QOne, QMul(C9_Cos, C9_Cos))))
C9_Reflected == VSub(mray.to, VScale(QMul(QInt(2), Dot(mray.to, mhr.normal)), mhr.normal))
C9_DielectricScatter ==
    (mtpc = "scattered" /\ mat.kind = "Dielectric") =>
        /\ mresp.kind = "Scattered"
        /\ mresp.attenuation = VOnes
        /\ mresp.ray.from = mhr.point
        /\ QLe(C9_Discr, QZero) => drawn = <<>> /\ mresp.ray.to = C9_Reflected
        /\ QGt(C9_Discr, QZero) =>
              /\ Len(drawn) = 1
              /\ mresp.ray.to =
                    IF QLt(drawn[1], DielectricParts(mat, mray, mhr).reflect_prob)
                       THEN C9_Reflected
                       ELSE DielectricParts(mat, mray, mhr).refracted[1]
\* The discriminant is exactly 0: the ray (4,3,0) leaves a medium of index
\* 5/4 and is reflected without a draw.
C9_Witness ==
    /\ mtpc = "scattered"
    /\ mat.kind = "Dielectric"
    /\ C9_Discr = QZero
    /\ mat.refraction_index = Q(5, 4)
    /\ mray.to = VInt(4, 3, 0)
    /\ drawn = <<>>
    /\ mresp.ray.to = VInt(4, -3, 0)

\* C11: for a radius r # 0, Sphere::hit on the sphere of radius -r reports
\* a hit exactly when the sphere of radius r with the same center does, at
\* the same time and point, and its normal is the negation of the normal
\* reported for radius r: (point - center) / radius points towards the
\* center when the radius is negative.
C11_Inward(h, s) == QLt(Dot(h.normal, VSub(h.point, s.center)), QZero)
C11_NegativeRadius ==
    hpc = "negated" =>
        /\ hworld[hsel].radius # QZero
        /\ (hneg = None) <=> (hone = None)
        /\ hone # None =>
              /\ hneg[1].time = hone[1].time
              /\ hneg[1].point = hone[1].point
              /\ hneg[1].normal = VNeg(hone[1].normal)
              /\ hneg[1].normal # hone[1].normal
              /\ C11_Inward(hneg[1], hworld[hsel]) # C11_Inward(hone[1], hworld[hsel])
              /\ C11_Inward(hneg[1], hworld[hsel]) <=> QGt(hworld[hsel].radius, QZero)
\* The ray from the origin along -z meets the unit sphere at (0,0,-3) and the
\* shell of radius -1 at time 2; the shell's normal points to the center.
C11_Witness ==
    /\ hpc = "negated"
    /\ hone # None
    /\ hneg # None
    /\ hone[1].time = QInt(2)
    /\ hone[1].normal = VInt(0, 0, 1)
    /\ hneg[1].point = VInt(0, 0, -2)
    /\ hneg[1].normal = VInt(0, 0, -1)

\***************************************************************************
\* The direction of the rows (main.rs, camera.rs)
\***************************************************************************

\* let v = (f32::from(j) + rng.gen::<f32>()) / f32::from(ny): the camera
\* coordinate t of a sample of row j, for the random value U in [0, 1).
RowT(j, U) == QDiv(QAdd(QInt(j), U), QInt(ny))
\* Camera::get_ray aims at lower_left_corner + s * horizontal + t * vertical:
\* the top row of the image is the row whose t is largest.
TopRow == CHOOSE j \in 0..(ny - 1) : \A k \in 0..(ny - 1) : QLe(RowT(k, QZero), RowT(j, QZero))
BottomRow == CHOOSE j \in 0..(ny - 1) : \A k \in 0..(ny - 1) : QLe(RowT(j, QZero), RowT(k, QZero))

\* C12: the rows are written top row first: the first triplet after the
\* header belongs to the top row (the row of largest t) and, when main has
\* ended, the last triplet belongs to the bottom row.
C12_TopRowFirst ==
    /\ Len(PixelLines) > 0 => PixelLines[1].j = TopRow
    /\ mpc = "done" => PixelLines[Len(PixelLines)].j = BottomRow

\***************************************************************************
\* Camera::new and Camera::get_ray (camera.rs)
\***************************************************************************

\* Vec3::cross
Cross(a, b) ==
    <<QSub(QMul(a[2], b[3]), QMul(a[3], b[2])),
      QNeg(QSub(QMul(a[1], b[3]), QMul(a[3], b[1]))),
      QSub(QMul(a[1], b[2]), QMul(a[2], b[1]))>>

\* (v_fov * PI / 180.0 / 2.0).tan() for the fields of view used: tan(45
\* degrees) is 1, tan(10 degrees) = 0.1763.. is rounded to 3/17.
FieldsOfView == {90, 20}
TanHalf(v_fov) == IF v_fov = 90 THEN QOne ELSE Q(3, 17)

\* Pairs (look_from, look_at) whose distance is rational.
Views ==
    { <<VInt(0, 0, 0), VInt(0, 0, -1)>>,
      <<VInt(3, 0, 4), VInt(0, 0, 0)>>,
      <<VInt(1, 3, 4), VInt(1, 0, 0)>> }
Aspects == {QOne, Q(3, 2)}
Apertures == {QZero, Q(1, 10), QInt(2)}
FocusDists == {QOne, QInt(10)}
CameraSettingsSet ==
    { [look_from |-> vw[1], look_at |-> vw[2], v_up |-> VInt(0, 1, 0), v_fov |-> f,
       aspect |-> a, aperture |-> ap, focus_dist |-> fd] :
         vw \in Views, f \in FieldsOfView, a \in Aspects, ap \in Apertures, fd \in FocusDists }

\* The coordinates (s, t) of a point of the camera matrix.
Coords == {QZero, Q(1, 2), QOne}
\* 2.0 * Vec3(rng.gen(), rng.gen(), 0.0) - Vec3(1.0, 1.0, 0.0)
DiskCandidates ==
    { VZero, <<Q(1, 2), Q(-1, 2), QZero>>, <<Q(-9, 10), QZero, QZero>>,
      <<Q(3, 5), Q(3, 5), QZero>>, <<QInt(-1), QZero, QZero>>,
      <<Q(4, 5), Q(4, 5), QZero>> }
\* random_in_unit_disk: the loop ends with a candidate inside the disk.
RandomInUnitDisk == {v \in DiskCandidates : QLt(LengthSquared(v), QOne)}

\* Camera::new
CameraNewOf(s) ==
    LET half_height == TanHalf(s.v_fov)
        half_width == QMul(s.aspect, half_height)
        origin == s.look_from
        w == UnitVector(VSub(s.look_from, s.look_at))
        u == UnitVector(Cross(s.v_up, w))
        v == Cross(w, u)
    IN  [origin |-> origin,
         lower_left_corner |->
            VSub(origin, VScale(s.focus_dist,
                    VAdd(VAdd(VScale(half_width, u), VScale(half_height, v)), w))),
         horizontal |-> VScale(QMul(QMul(QInt(2), s.focus_dist), half_width), u),
         vertical |-> VScale(QMul(QMul(QInt(2), s.focus_dist), half_height), v),
         u |-> u,
         v |-> v,
         lens_radius |-> QDiv(s.aperture, QInt(2))]

\* Camera::get_ray, for the point rd of the lens.
GetRayNoOffset(c, s, t, rd) ==
    LET offset == VAdd(VScale(rd[1], c.u), VScale(rd[2], c.v))
    IN  Ray(VAdd(c.origin, offset),
            VSub(VAdd(VAdd(c.lower_left_corner, VScale(s, c.horizontal)),
                      VScale(t, c.vertical)), c.origin))
GetRayOf(c, s, t, rd) ==
    LET offset == VAdd(VScale(rd[1], c.u), VScale(rd[2], c.v))
    IN  Ray(VAdd(c.origin, offset),
            VSub(VSub(VAdd(VAdd(c.lower_left_corner, VScale(s, c.horizontal)),
                           VScale(t, c.vertical)), c.origin), offset))

InitCam ==
    /\ campc = "start"
    /\ csettings \in CameraSettingsSet
    /\ camera = NoCamera
    /\ cs = QZero
    /\ ct = QZero
    /\ crd = VZero
    /\ cray = Ray(VZero, VZero)
    /\ IdleMain
    /\ IdleColor
    /\ IdlePixel
    /\ IdleHit
    /\ IdleMat

CameraNew ==
    /\ campc = "start"
    /\ camera' = CameraNewOf(csettings)
    /\ campc' = "ready"
    /\ UNCHANGED <<csettings, cs, ct, crd, cray, mainVars, colorVars, pixelVars, hitVars, matVars>>

GetRay ==
    /\ campc \in {"ready", "ray"}
    /\ \E s \in Coords, t \in Coords, disk \in RandomInUnitDisk :
          LET rd == VScale(camera.lens_radius, disk)
          IN  /\ cs' = s
              /\ ct' = t
              /\ crd' = rd
              /\ cray' = GetRayOf(camera, s, t, rd)
    /\ campc' = "ray"
    /\ UNCHANGED <<csettings, camera, mainVars, colorVars, pixelVars, hitVars, matVars>>

NextCam ==
    \/ CameraNew
    \/ GetRay

SpecCam == InitCam /\ [][NextCam]_vars

\* C13: the ray get_ray returns satisfies origin + direction =
\* lower_left_corner + s * horizontal + t * vertical, a point of the focus
\* plane that does not depend on the lens sample; the origin is look_from +
\* u * rd.x + v * rd.y with rd inside the disk of radius aperture / 2; with
\* aperture 0 the origin is look_from and the ray through (0.5, 0.5) points
\* from look_from towards look_at.
C13_Target ==
    VAdd(VAdd(camera.lower_left_corner, VScale(cs, camera.horizontal)), VScale(ct, camera.vertical))
C13_Forward == VSub(csettings.look_at, csettings.look_from)
C13_GetRayAimsAtFocusPlane ==
    campc = "ray" =>
        /\ VAdd(cray.from, cray.to) = C13_Target
        /\ Dot(VSub(VAdd(cray.from, cray.to), csettings.look_from), C13_Forward)
              = QMul(csettings.focus_dist, Length(C13_Forward))
        /\ VSub(cray.from, csettings.look_from)
              = VAdd(VScale(crd[1], camera.u), VScale(crd[2], camera.v))
        /\ crd[3] = QZero
        /\ \/ QLt(LengthSquared(crd),
                  QMul(QDiv(csettings.aperture, QInt(2)), QDiv(csettings.aperture, QInt(2))))
           \/ (csettings.aperture = QZero /\ crd = VZero)
        /\ csettings.aperture = QZero =>
              /\ cray.from = csettings.look_from
              /\ (cs = Q(1, 2) /\ ct = Q(1, 2)) =>
                    /\ Cross(cray.to, C13_Forward) = VZero
                    /\ QGt(Dot(cray.to, C13_Forward), QZero)
\* A ray through the corner (1, 0) of the matrix from a point of the lens
\* that is not its center.
C13_Witness ==
    /\ campc = "ray"
    /\ csettings.aperture = QInt(2)
    /\ csettings.look_from = VInt(3, 0, 4)
    /\ crd = <<Q(3, 5), Q(3, 5), QZero>>
    /\ cray.from # csettings.look_from
    /\ cs = QOne
    /\ ct = QZero
    /\ VAdd(cray.from, cray.to) = C13_Target

\***************************************************************************
\* Sphere::hit and the hit of a slice over floats with NaN and infinities
\* (geometry.rs)
\*
\* Here an Elem is a finite value (a record of the rational arithmetic
\* above, d > 0) or one of NaN, +infinity, -infinity, written with d = 0.
\* The operations follow IEEE 754 for these values; a zero is taken as +0
\* and finite results do not overflow.
\***************************************************************************

FNaN == [n |-> 0, d |-> 0, e |-> 0]
FInf == [n |-> 1, d |-> 0, e |-> 0]
FNegInf == [n |-> -1, d |-> 0, e |-> 0]
FIsNaN(x) == x.d = 0 /\ x.n = 0
FIsFinite(x) == x.d # 0
FSign(x) == IF x.n > 0 THEN 1 ELSE IF x.n < 0 THEN -1 ELSE 0
FInfOfSign(sg) == IF sg < 0 THEN FNegInf ELSE FInf

FNeg(a) == [a EXCEPT !.n = -a.n]
FAdd(a, b) ==
    IF FIsNaN(a) \/ FIsNaN(b) THEN FNaN
    ELSE IF FIsFinite(a) /\ FIsFinite(b) THEN QAdd(a, b)
    ELSE IF FIsFinite(b) THEN a
    ELSE IF FIsFinite(a) THEN b
    ELSE IF a = b THEN a ELSE FNaN
FSub(a, b) == FAdd(a, FNeg(b))
FMul(a, b) ==
    IF FIsNaN(a) \/ FIsNaN(b) THEN FNaN
    ELSE IF FIsFinite(a) /\ FIsFinite(b) THEN QMul(a, b)
    ELSE IF FSign(a) = 0 \/ FSign(b) = 0 THEN FNaN
    ELSE FInfOfSign(FSign(a) * FSign(b))
FDiv(a, b) ==
    IF FIsNaN(a) \/ FIsNaN(b) THEN FNaN
    ELSE IF FIsFinite(a) /\ FIsFinite(b)
            THEN IF b.n # 0 THEN QDiv(a, b)
                 ELSE IF a.n = 0 THEN FNaN ELSE FInfOfSign(FSign(a))
    ELSE IF FIsFinite(a) THEN QZero
    ELSE IF FIsFinite(b) THEN FInfOfSign(IF FSign(b) < 0 THEN -FSign(a) ELSE FSign(a))
    ELSE FNaN
FSqrt(a) ==
    IF FIsNaN(a) \/ FSign(a) < 0 THEN FNaN
    ELSE IF FIsFinite(a) THEN QSqrt(a)
    ELSE FInf
\* a < b and a > b: false when either side is NaN.
FLt(a, b) ==
    IF FIsNaN(a) \/ FIsNaN(b) THEN FALSE
    ELSE IF FIsFinite(a) /\ FIsFinite(b) THEN QLt(a, b)
    ELSE IF FIsFinite(a) THEN b = FInf
    ELSE IF FIsFinite(b) THEN a = FNegInf
    ELSE a = FNegInf /\ b = FInf
FGt(a, b) == FLt(b, a)
\* a.partial_cmp(&b)
PartialCmp(a, b) ==
    IF FIsNaN(a) \/ FIsNaN(b) THEN None
    ELSE IF FLt(a, b) THEN Some("Less")
    ELSE IF FGt(a, b) THEN Some("Greater")
    ELSE Some("Equal")

FVAdd(v, w) == <<FAdd(v[1], w[1]), FAdd(v[2], w[2]), FAdd(v[3], w[3])>>
FVSub(v, w) == <<FSub(v[1], w[1]), FSub(v[2], w[2]), FSub(v[3], w[3])>>
FVScale(k, v) == <<FMul(k, v[1]), FMul(k, v[2]), FMul(k, v[3])>>
FVDivS(v, k) == <<FDiv(v[1], k), FDiv(v[2], k), FDiv(v[3], k)>>
FDot(v, w) == FAdd(FAdd(FMul(v[1], w[1]), FMul(v[2], w[2])), FMul(v[3], w[3]))

\* t > t_min && t < t_max
FInIntervalNegated(t, t_min, t_max) ==
    ~(FLt(t, t_min) \/ t = t_min) /\ ~(FGt(t, t_max) \/ t = t_max)
FInInterval(t, t_min, t_max) == FGt(t, t_min) /\ FLt(t, t_max)

\* The closure mk_hit_record of Sphere::hit.
FMkHitRecord(s, ray, t) ==
    LET p == FVAdd(ray.from, FVScale(t, ray.to))
    IN  Some(HitRecord(t, p, FVDivS(FVSub(p, s.center), s.radius), s.material))

\* Sphere::hit
FSphereHit(s, ray, t_min, t_max) ==
    LET oc == FVSub(ray.from, s.center)
        dir == ray.to
        a == FDot(dir, dir)
        b == FDot(oc, dir)
        c == FSub(FDot(oc, oc), FMul(s.radius, s.radius))
        discriminant == FSub(FMul(b, b), FMul(a, c))
        t_small == FDiv(FSub(FNeg(b), FSqrt(discriminant)), a)
        t_big == FDiv(FAdd(FNeg(b), FSqrt(discriminant)), a)
    IN  IF FGt(discriminant, QZero)
           THEN IF FInInterval(t_small, t_min, t_max) THEN FMkHitRecord(s, ray, t_small)
                ELSE IF FInInterval(t_big, t_min, t_max) THEN FMkHitRecord(s, ray, t_big)
                ELSE None
           ELSE None

\* self.iter().filter_map(|h| h.hit(ray, t_min, t_max))
RECURSIVE FFilterMapHit(_, _, _, _)
FFilterMapHit(world, ray, t_min, t_max) ==
    IF world = <<>> THEN <<>>
    ELSE FSphereHit(Head(world), ray, t_min, t_max)
            \o FFilterMapHit(Tail(world), ray, t_min, t_max)

\* min_by(|x, y| x.time.partial_cmp(&y.time).unwrap()): the unwrap panics
\* when the two times do not compare.
RECURSIVE FMinBy(_, _)
FMinBy(sofar, rest) ==
    IF sofar.panic \/ rest = <<>> THEN sofar
    ELSE LET o == PartialCmp(sofar.best.time, Head(rest).time)
         IN  IF o = None THEN [panic |-> TRUE, best |-> sofar.best]
             ELSE FMinBy([panic |-> FALSE,
                          best |-> IF o = Some("Greater") THEN Head(rest) ELSE sofar.best],
                         Tail(rest))

\* impl Hitable for [T]: hit
FSliceHit(world, ray, t_min, t_max) ==
    LET hits == FFilterMapHit(world, ray, t_min, t_max)
    IN  IF hits = <<>> THEN [panic |-> FALSE, hit |-> None]
        ELSE LET r == FMinBy([panic |-> FALSE, best |-> Head(hits)], Tail(hits))
             IN  [panic |-> r.panic, hit |-> IF r.panic THEN None ELSE Some(r.best)]

\* Spheres, rays and intervals with NaN, infinite and zero fields next to
\* ordinary ones.
FSpheres ==
    { Sphere(VInt(0, 0, -3), QInt(1), 1),
      Sphere(VInt(0, 0, -4), QInt(2), 2),
      Sphere(VInt(0, 0, -3), FNaN, 3),
      Sphere(<<QZero, FNaN, QInt(-3)>>, QInt(1), 4),
      Sphere(VInt(0, 0, -3), FInf, 5) }
FRays ==
    { Ray(VZero, VInt(0, 0, -1)),
      Ray(VZero, VZero),
      Ray(VZero, <<FNaN, QZero, QInt(-1)>>),
      Ray(<<Q(1, 2), QZero, QInt(-3)>>, <<FInf, QZero, QZero>>),
      Ray(<<QZero, QZero, FNegInf>>, VInt(0, 0, -1)) }
FIntervals ==
    { <<Q(1, 1000), FarAway>>, <<Q(1, 1000), FInf>>, <<FNegInf, FInf>>,
      <<FNaN, FarAway>>, <<QInt(2), FNaN>> }
FWorlds ==
    { w \in UNION {[1..n -> FSpheres] : n \in 0..MaxWorld} :
        \A i, j \in DOMAIN w : w[i] = w[j] => i = j }

InitFloat ==
    /\ hpc = "start"
    /\ hworld \in FWorlds
    /\ hray \in FRays
    /\ \E iv \in FIntervals : htmin = iv[1] /\ htmax = iv[2]
    /\ hsel = 0
    /\ hone = None
    /\ hneg = None
    /\ hall = None
    /\ hprev = None
    /\ hswaps = 0
    /\ IdleMain
    /\ IdleColor
    /\ IdlePixel
    /\ IdleMat
    /\ IdleCam

\* A caller queries one sphere of the slice.
FSphereHitCall ==
    /\ hpc = "start"
    /\ \E k \in 1..Len(hworld) :
          /\ hsel' = k
          /\ hone' = FSphereHit(hworld[k], hray, htmin, htmax)
    /\ hpc' = "sphere"
    /\ UNCHANGED <<hworld, hray, htmin, htmax, hneg, hall, hprev, hswaps,
                   mainVars, colorVars, pixelVars, matVars, camVars>>

\* A caller queries the slice; a panic of the unwrap ends the program.
FSliceHitCall ==
    /\ hpc \in {"start", "sphere"}
    /\ LET r == FSliceHit(hworld, hray, htmin, htmax)
       IN  /\ hall' = r.hit
           /\ hpc' = IF r.panic THEN "panicked" ELSE "slice"
    /\ UNCHANGED <<hworld, hray, htmin, htmax, hsel, hone, hneg, hprev, hswaps,
                   mainVars, colorVars, pixelVars, matVars, camVars>>

NextFloat ==
    \/ FSphereHitCall
    \/ FSliceHitCall

SpecFloat == InitFloat /\ [][NextFloat]_vars

\* C14: the hit of a slice never panics on partial_cmp(..).unwrap(): every
\* record Sphere::hit produces has t_min < time < t_max and so a time that
\* is not NaN, for every input, a ray of zero direction and NaN inputs
\* included, which give no hit; any two records that reach min_by compare,
\* and the record the slice returns has t_min < time < t_max.
C14_HasNaN(v) == FIsNaN(v[1]) \/ FIsNaN(v[2]) \/ FIsNaN(v[3])
C14_NaNInput(s) ==
    \/ C14_HasNaN(hray.from) \/ C14_HasNaN(hray.to)
    \/ C14_HasNaN(s.center) \/ FIsNaN(s.radius)
    \/ FIsNaN(htmin) \/ FIsNaN(htmax)
C14_Inside(t) == ~FIsNaN(t) /\ FLt(htmin, t) /\ FLt(t, htmax)
C14_Records ==
    {FSphereHit(hworld[k], hray, htmin, htmax) : k \in 1..Len(hworld)} \ {None}
C14_NoPanic ==
    /\ hpc # "panicked"
    /\ hsel # 0 =>
          /\ hone # None => C14_Inside(hone[1].time)
          /\ hray.to = VZero => hone = None
          /\ C14_NaNInput(hworld[hsel]) => hone = None
    /\ \A x, y \in C14_Records : PartialCmp(x[1].time, y[1].time) # None
    /\ hpc = "slice" =>
          /\ hall # None => C14_Inside(hall[1].time)
          /\ hall = None <=> C14_Records = {}
\* Behind a sphere whose radius is NaN and a sphere whose center has a NaN
\* coordinate, the ray meets two ordinary spheres at time 2.
C14_Witness ==
    /\ hpc = "slice"
    /\ Len(hworld) = MaxWorld
    /\ FIsNaN(hworld[1].radius)
    /\ htmax = FInf
    /\ hall # None
    /\ hall[1].time = QInt(2)
    /\ Cardinality(C14_Records) = 2


====
